---------------------------- MODULE Spec2Model ----------------------------
(***************************************************************************)
(* Model of environment/kubernetes/environment.go: the Environment type,   *)
(* its status cell, its stream / metadata / log-callback slots, the locks  *)
(* guarding them, and the three backend queries Exists, IsRunning and      *)
(* ExitState.  Goroutines calling the Environment concurrently are the     *)
(* processes in Procs; every method is split into the steps at which the   *)
(* Go scheduler may interleave another goroutine (lock, shared access,     *)
(* unlock, backend query, publish).                                        *)
(***************************************************************************)
EXTENDS Integers, Sequences, FiniteSets, TLC

\* ------------------------------------------------------------------ bounds
NumProcs == 2
MaxCalls == 2

Procs == 1..NumProcs

\* --------------------------------------------------------------- constants
Nil == "nil"

ProcessOfflineState  == "offline"
ProcessStartingState == "starting"
ProcessRunningState  == "running"
ProcessStoppingState == "stopping"

States == {ProcessOfflineState, ProcessStartingState,
           ProcessRunningState, ProcessStoppingState}

\* Strings a caller can hand to SetState that are not one of the four.
InvalidStates == {"", "crashed"}

StateChangeEvent == "state change"

\* v1.PodPhase values
PodPending   == "Pending"
PodRunning   == "Running"
PodSucceeded == "Succeeded"
PodFailed    == "Failed"
PodUnknown   == "Unknown"
Phases == {PodPending, PodRunning, PodSucceeded, PodFailed, PodUnknown}

\* Errors of the pod lookup.  ErrNotFound is the one apierrors.IsNotFound
\* recognises; the others stand for any other failure of the API call.
ErrNotFound  == "NotFound"
ErrForbidden == "Forbidden"
ErrTimeout   == "Timeout"
Errors == {ErrNotFound, ErrForbidden, ErrTimeout}

OOMExitCode == 137

MaxInt32 == 2147483647
MinInt32 == (-2147483647) - 1

\* Raw int32 exit codes the backend may report.
ExitCodes == {MinInt32, -1, 0, 1, 137, 138, MaxInt32}

\* Values handed to the setters.
Streams      == {"exec1"}
Images       == {"image1"}
StopConfigs  == {"stop1"}
LogCallbacks == {Nil, "callback1"}

\* ------------------------------------------------------------------ uint32
\* A uint32 does not fit the model checker's integers; it is kept as two
\* 16-bit limbs, value = hi * 65536 + lo.
Limb == 65536

U32(n) == [hi |-> n \div Limb, lo |-> n % Limb]

ToUint32Saturating(c) ==
    IF c >= 0 THEN U32(c) ELSE U32(0)

\* Go's conversion uint32(c) of an int32 c: the same 32 bits, read unsigned,
\* i.e. c mod 2^32.
ToUint32(c) ==
    IF c >= 0 THEN U32(c)
    ELSE LET m == (c + MaxInt32) + 1      \* c + 2^31, in 0 .. 2^31 - 1
         IN  [hi |-> (m \div Limb) + 32768, lo |-> m % Limb]

\* ----------------------------------------------------------------- backend
NilTerminated == [isNil |-> TRUE, ExitCode |-> 0]
Terminated(c) == [isNil |-> FALSE, ExitCode |-> c]

ContainerStatus == {[Terminated |-> NilTerminated]}
                   \cup {[Terminated |-> Terminated(c)] : c \in ExitCodes}

\* A second container status only ever differs in whether it terminated.
OtherStatus == {[Terminated |-> NilTerminated], [Terminated |-> Terminated(0)],
                [Terminated |-> Terminated(137)]}

ContainerStatuses == {<<>>} \cup {<<s>> : s \in ContainerStatus}
                     \cup {<<s, t>> : s \in ContainerStatus, t \in OtherStatus}

Pods == [Phase : Phases, ContainerStatuses : ContainerStatuses]

NoPod == [Phase |-> PodUnknown, ContainerStatuses |-> <<>>]

\* What e.client.CoreV1().Pods(ns).Get(ctx, e.Id, opts) can answer.
GetResults == {[pod |-> c, err |-> Nil] : c \in Pods}
              \cup {[pod |-> NoPod, err |-> err] : err \in Errors}

IsNotFound(err) == err = ErrNotFound

\* ----------------------------------------------------------------- results
\* The value a call left its caller with.  code/oom/b/s are the Go results,
\* err the returned error, panicked whether the call unwound by panic.
NoRet == [op |-> Nil, code |-> U32(0), b |-> FALSE, s |-> Nil, err |-> Nil,
          panicked |-> FALSE]

RetBool(op, b, err)      == [NoRet EXCEPT !.op = op, !.b = b, !.err = err]
RetExit(code, oom, err)  == [NoRet EXCEPT !.op = "ExitState", !.code = code,
                                          !.b = oom, !.err = err]
RetString(op, s)         == [NoRet EXCEPT !.op = op, !.s = s]
RetVoid(op)              == [NoRet EXCEPT !.op = op]
RetPanic(op)             == [NoRet EXCEPT !.op = op, !.panicked = TRUE]

ExistsResultNoTranslation(r) ==
    IF r.err /= Nil THEN RetBool("Exists", FALSE, r.err)
    ELSE RetBool("Exists", TRUE, Nil)

\* Exists, lines 137-145, given the answer of the lookup.
ExistsResult(r) ==
    IF r.err /= Nil
    THEN IF IsNotFound(r.err) THEN RetBool("Exists", FALSE, Nil)
                              ELSE RetBool("Exists", FALSE, r.err)
    ELSE RetBool("Exists", TRUE, Nil)

IsRunningResultNotFoundSwallowed(r) ==
    IF r.err /= Nil
    THEN IF IsNotFound(r.err) THEN RetBool("IsRunning", FALSE, Nil)
                              ELSE RetBool("IsRunning", FALSE, r.err)
    ELSE IF r.pod.Phase = PodRunning THEN RetBool("IsRunning", TRUE, Nil)
    ELSE RetBool("IsRunning", FALSE, Nil)

\* IsRunning, lines 159-165.
IsRunningResult(r) ==
    IF r.err /= Nil THEN RetBool("IsRunning", FALSE, r.err)
    ELSE IF r.pod.Phase = PodRunning THEN RetBool("IsRunning", TRUE, Nil)
    ELSE RetBool("IsRunning", FALSE, Nil)

ExitStateResultOOMFromSignal(r) ==
    IF r.err /= Nil
    THEN IF IsNotFound(r.err) THEN RetExit(U32(1), FALSE, Nil)
                              ELSE RetExit(U32(0), FALSE, r.err)
    ELSE IF /\ Len(r.pod.ContainerStatuses) /= 0
            /\ ~r.pod.ContainerStatuses[1].Terminated.isNil
         THEN IF r.pod.ContainerStatuses[1].Terminated.ExitCode >= OOMExitCode
              THEN RetExit(ToUint32(r.pod.ContainerStatuses[1].Terminated.ExitCode),
                           TRUE, Nil)
              ELSE RetExit(ToUint32(r.pod.ContainerStatuses[1].Terminated.ExitCode),
                           FALSE, Nil)
         ELSE RetExit(U32(1), FALSE, Nil)

ExitStateResultNotFoundFails(r) ==
    IF r.err /= Nil
    THEN RetExit(U32(0), FALSE, r.err)
    ELSE IF /\ Len(r.pod.ContainerStatuses) /= 0
            /\ ~r.pod.ContainerStatuses[1].Terminated.isNil
         THEN IF r.pod.ContainerStatuses[1].Terminated.ExitCode = OOMExitCode
              THEN RetExit(U32(137), TRUE, Nil)
              ELSE RetExit(ToUint32(r.pod.ContainerStatuses[1].Terminated.ExitCode),
                           FALSE, Nil)
         ELSE RetExit(U32(1), FALSE, Nil)

\* ExitState, lines 172-198.
ExitStateResult(r) ==
    IF r.err /= Nil
    THEN IF IsNotFound(r.err) THEN RetExit(U32(1), FALSE, Nil)
                              ELSE RetExit(U32(0), FALSE, r.err)
    ELSE IF /\ Len(r.pod.ContainerStatuses) /= 0
            /\ ~r.pod.ContainerStatuses[1].Terminated.isNil
         THEN IF r.pod.ContainerStatuses[1].Terminated.ExitCode = OOMExitCode
              THEN RetExit(U32(137), TRUE, Nil)
              ELSE RetExit(ToUint32(r.pod.ContainerStatuses[1].Terminated.ExitCode),
                           FALSE, Nil)
         ELSE RetExit(U32(1), FALSE, Nil)

\* ------------------------------------------------------------------- state
VARIABLES
    st,             \* e.st, the status cell
    stream,         \* e.stream
    meta,           \* *e.meta
    Configuration,  \* e.Configuration
    logCallback,    \* e.logCallback
    mu,             \* e.mu: its writer and its readers
    logCallbackMx,  \* e.logCallbackMx: its holder
    events,         \* what e.emitter was asked to publish, in order
    pc,             \* where each goroutine is
    arg,            \* the argument of the call a goroutine is in
    ret,            \* the result of the last call a goroutine finished
    backend,        \* what the cluster answers to a lookup of e.Id
    entry,          \* the argument, the status and the number of events when a
                    \* goroutine entered SetState
    recent,         \* the argument of the latest SetState that returned
    stores,         \* the values e.st.Store was given, in order
    lastStream,     \* the argument of the latest SetStream that returned
    queries,        \* the lookups a goroutine made in its current or last call
    calls           \* number of calls made so far

vars == <<st, stream, meta, Configuration, logCallback, mu, logCallbackMx,
          events, pc, arg, ret, backend, entry, recent, stores, lastStream,
          queries, calls>>

shared == <<st, stream, meta, Configuration, logCallback, events>>
locks  == <<mu, logCallbackMx>>
ghosts == <<recent, stores, lastStream>>

NoEntry == [arg |-> Nil, st |-> Nil, events |-> 0]

\* New, lines 70-87, for some metadata and configuration of the caller.
InitWith(answers) ==
    /\ st = ProcessOfflineState
    /\ stream = Nil
    /\ meta \in [Image : {"image0"}, Stop : {"stop0"}]
    /\ Configuration = "configuration0"
    /\ logCallback = Nil
    /\ mu = [writer |-> 0, readers |-> {}]
    /\ logCallbackMx = 0
    /\ events = <<>>
    /\ pc = [p \in Procs |-> "idle"]
    /\ arg = [p \in Procs |-> Nil]
    /\ ret = [p \in Procs |-> NoRet]
    /\ backend \in answers
    /\ entry = [p \in Procs |-> NoEntry]
    /\ recent = Nil
    /\ stores = <<>>
    /\ lastStream = Nil
    /\ queries = [p \in Procs |-> 0]
    /\ calls = 0

\* The answers the lookup gives while every method is in play: the workload
\* running, the workload unknown to the cluster, the lookup failing.
SomeResults ==
    {[pod |-> [Phase |-> PodRunning,
               ContainerStatuses |-> <<[Terminated |-> NilTerminated]>>],
      err |-> Nil],
     [pod |-> NoPod, err |-> ErrNotFound],
     [pod |-> NoPod, err |-> ErrForbidden]}

Init == InitWith(SomeResults)

\* ---------------------------------------------------------------- plumbing
\* A goroutine that is in no call makes one.
Invoke(p, label, a) ==
    /\ pc[p] = "idle"
    /\ calls < MaxCalls
    /\ calls' = calls + 1
    /\ pc' = [pc EXCEPT ![p] = label]
    /\ arg' = [arg EXCEPT ![p] = a]
    /\ ret' = [ret EXCEPT ![p] = NoRet]
    /\ entry' = [entry EXCEPT ![p] =
                    IF label = "SetState"
                    THEN [arg |-> a, st |-> st, events |-> Len(events)]
                    ELSE NoEntry]
    /\ queries' = [queries EXCEPT ![p] = 0]
    /\ UNCHANGED backend

Goto(p, label) ==
    /\ pc' = [pc EXCEPT ![p] = label]
    /\ UNCHANGED <<arg, ret, backend, entry, queries, calls>>

Return(p, r) ==
    /\ pc' = [pc EXCEPT ![p] = "idle"]
    /\ arg' = [arg EXCEPT ![p] = Nil]
    /\ ret' = [ret EXCEPT ![p] = r]
    /\ UNCHANGED <<backend, entry, queries, calls>>

\* e.client.CoreV1().Pods(config.Get().Cluster.Namespace).Get(ctx, e.Id, ...)
Get == backend

\* system.AtomicString
Load == st
Store(v) == st' = v

\* events.Bus.Publish: the bus is handed the topic's payload; seen is what
\* State() returns to a listener asking at that moment.
Publish(topic, payload) ==
    events' = Append(events, [topic |-> topic, payload |-> payload, seen |-> Load])

\* sync.RWMutex
CanLock  == mu.writer = 0 /\ mu.readers = {}
CanRLock == mu.writer = 0
Lock(p)    == mu' = [mu EXCEPT !.writer = p]
Unlock(p)  == mu' = [mu EXCEPT !.writer = 0]
RLock(p)   == mu' = [mu EXCEPT !.readers = @ \cup {p}]
RUnlock(p) == mu' = [mu EXCEPT !.readers = @ \ {p}]


\* ---------------------------------------------------------------- SetState
\* SetState, line 231: the call.
SetStateCall(p, v) ==
    /\ Invoke(p, "SetState", v)
    /\ UNCHANGED <<shared, locks, ghosts>>

\* Lines 232-237: a state that is none of the four panics.
SetStateValidLoose(state) ==
    state /= ""

SetStateValid(state) ==
    ~(/\ state /= ProcessOfflineState
      /\ state /= ProcessStartingState
      /\ state /= ProcessRunningState
      /\ state /= ProcessStoppingState)

SetStateValidateNoPanic(p) ==
    /\ pc[p] = "SetState"
    /\ IF SetStateValid(arg[p])
       THEN Goto(p, "SetState_load")
       ELSE Return(p, RetVoid("SetState"))
    /\ UNCHANGED <<shared, locks, ghosts>>

SetStateValidate(p) ==
    /\ pc[p] = "SetState"
    /\ IF SetStateValid(arg[p])
       THEN Goto(p, "SetState_load")
       ELSE Return(p, RetPanic("SetState"))
    /\ UNCHANGED <<shared, locks, ghosts>>

SetStateLoadNoCompare(p) ==
    /\ pc[p] = "SetState_load"
    /\ Goto(p, "SetState_store")
    /\ UNCHANGED <<shared, locks, ghosts>>

SetStateLoadFromOffline(p) ==
    /\ pc[p] = "SetState_load"
    /\ IF Load /= arg[p] /\ ProcessOfflineState \in {Load, arg[p]}
       THEN Goto(p, "SetState_store") /\ UNCHANGED recent
       ELSE Return(p, RetVoid("SetState")) /\ recent' = arg[p]
    /\ UNCHANGED <<shared, locks, stores, lastStream>>

\* Line 240: e.State() != state
SetStateLoad(p) ==
    /\ pc[p] = "SetState_load"
    /\ IF Load /= arg[p]
       THEN Goto(p, "SetState_store") /\ UNCHANGED recent
       ELSE Return(p, RetVoid("SetState")) /\ recent' = arg[p]
    /\ UNCHANGED <<shared, locks, stores, lastStream>>

SetStateStoreForgets(p) ==
    /\ pc[p] = "SetState_store"
    /\ Goto(p, "SetState_publish")
    /\ UNCHANGED <<shared, locks, ghosts>>

\* Line 242: e.st.Store(state)
SetStateStore(p) ==
    /\ pc[p] = "SetState_store"
    /\ Store(arg[p])
    /\ stores' = Append(stores, arg[p])
    /\ Goto(p, "SetState_publish")
    /\ UNCHANGED <<stream, meta, Configuration, logCallback, events, locks,
                   recent, lastStream>>

\* Line 243: e.Events().Publish(environment.StateChangeEvent, state), and the
\* return of line 245.
SetStatePublish(p) ==
    /\ pc[p] = "SetState_publish"
    /\ Publish(StateChangeEvent, arg[p])
    /\ Return(p, RetVoid("SetState"))
    /\ recent' = arg[p]
    /\ UNCHANGED <<st, stream, meta, Configuration, logCallback, locks,
                   stores, lastStream>>

\* ------------------------------------------------------------------- State
StateCall(p) ==
    /\ Invoke(p, "State", Nil)
    /\ UNCHANGED <<shared, locks, ghosts>>

\* Line 225
StateLoad(p) ==
    /\ pc[p] = "State"
    /\ Return(p, RetString("State", Load))
    /\ UNCHANGED <<shared, locks, ghosts>>

\* ------------------------------------------------------ SetStream, IsAttached
SetStreamCall(p, s) ==
    /\ Invoke(p, "SetStream", s)
    /\ UNCHANGED <<shared, locks, ghosts>>

\* Line 112
SetStreamLock(p) ==
    /\ pc[p] = "SetStream"
    /\ CanLock
    /\ Lock(p)
    /\ Goto(p, "SetStream_set")
    /\ UNCHANGED <<shared, logCallbackMx, ghosts>>

SetStreamSetIgnoresNil(p) ==
    /\ pc[p] = "SetStream_set"
    /\ stream' = IF arg[p] = Nil THEN stream ELSE arg[p]
    /\ Goto(p, "SetStream_unlock")
    /\ UNCHANGED <<st, meta, Configuration, logCallback, events, locks,
                   ghosts>>

SetStreamSetMarksOffline(p) ==
    /\ pc[p] = "SetStream_set"
    /\ stream' = arg[p]
    /\ st' = IF arg[p] = Nil THEN ProcessOfflineState ELSE st
    /\ Goto(p, "SetStream_unlock")
    /\ UNCHANGED <<meta, Configuration, logCallback, events, locks, ghosts>>

\* Line 113
SetStreamSet(p) ==
    /\ pc[p] = "SetStream_set"
    /\ stream' = arg[p]
    /\ Goto(p, "SetStream_unlock")
    /\ UNCHANGED <<st, meta, Configuration, logCallback, events, locks,
                   ghosts>>

SetStreamUnlockLeaks(p) ==
    /\ pc[p] = "SetStream_unlock"
    /\ Return(p, RetVoid("SetStream"))
    /\ lastStream' = arg[p]
    /\ UNCHANGED <<shared, locks, recent, stores>>

\* Line 114
SetStreamUnlock(p) ==
    /\ pc[p] = "SetStream_unlock"
    /\ Unlock(p)
    /\ Return(p, RetVoid("SetStream"))
    /\ lastStream' = arg[p]
    /\ UNCHANGED <<shared, logCallbackMx, recent, stores>>

IsAttachedCall(p) ==
    /\ Invoke(p, "IsAttached", Nil)
    /\ UNCHANGED <<shared, locks, ghosts>>

\* Line 120
IsAttachedRLock(p) ==
    /\ pc[p] = "IsAttached"
    /\ CanRLock
    /\ RLock(p)
    /\ Goto(p, "IsAttached_read")
    /\ UNCHANGED <<shared, logCallbackMx, ghosts>>

\* Line 122: the result is evaluated; the deferred RUnlock is still to run.
IsAttachedRead(p) ==
    /\ pc[p] = "IsAttached_read"
    /\ pc' = [pc EXCEPT ![p] = "IsAttached_runlock"]
    /\ ret' = [ret EXCEPT ![p] = RetBool("IsAttached", stream /= Nil, Nil)]
    /\ UNCHANGED <<arg, backend, entry, queries, calls, shared, locks, ghosts>>

\* Line 121, deferred
IsAttachedRUnlock(p) ==
    /\ pc[p] = "IsAttached_runlock"
    /\ RUnlock(p)
    /\ Return(p, ret[p])
    /\ UNCHANGED <<shared, logCallbackMx, ghosts>>

\* ------------------------------------------------------------------ queries
ExistsCall(p) ==
    /\ Invoke(p, "Exists", Nil)
    /\ UNCHANGED <<shared, locks, ghosts>>

ExistsGetRetries(p) ==
    /\ pc[p] = "Exists"
    /\ queries' = [queries EXCEPT ![p] = @ + 1]
    /\ IF Get.err /= Nil /\ ~IsNotFound(Get.err) /\ queries[p] = 0
       THEN UNCHANGED <<pc, arg, ret>>
       ELSE /\ pc' = [pc EXCEPT ![p] = "idle"]
            /\ arg' = [arg EXCEPT ![p] = Nil]
            /\ ret' = [ret EXCEPT ![p] = ExistsResult(Get)]
    /\ UNCHANGED <<backend, entry, calls, shared, locks, ghosts>>

ExistsGetMarksOffline(p) ==
    /\ pc[p] = "Exists"
    /\ queries' = [queries EXCEPT ![p] = @ + 1]
    /\ pc' = [pc EXCEPT ![p] = "idle"]
    /\ arg' = [arg EXCEPT ![p] = Nil]
    /\ ret' = [ret EXCEPT ![p] = ExistsResult(Get)]
    /\ st' = IF IsNotFound(Get.err) THEN ProcessOfflineState ELSE st
    /\ UNCHANGED <<backend, entry, calls, stream, meta, Configuration,
                   logCallback, events, locks, ghosts>>

\* Lines 136-145
ExistsGet(p) ==
    /\ pc[p] = "Exists"
    /\ queries' = [queries EXCEPT ![p] = @ + 1]
    /\ pc' = [pc EXCEPT ![p] = "idle"]
    /\ arg' = [arg EXCEPT ![p] = Nil]
    /\ ret' = [ret EXCEPT ![p] = ExistsResult(Get)]
    /\ UNCHANGED <<backend, entry, calls, shared, locks, ghosts>>

IsRunningCall(p) ==
    /\ Invoke(p, "IsRunning", Nil)
    /\ UNCHANGED <<shared, locks, ghosts>>

\* Lines 158-165
IsRunningGet(p) ==
    /\ pc[p] = "IsRunning"
    /\ queries' = [queries EXCEPT ![p] = @ + 1]
    /\ pc' = [pc EXCEPT ![p] = "idle"]
    /\ arg' = [arg EXCEPT ![p] = Nil]
    /\ ret' = [ret EXCEPT ![p] = IsRunningResult(Get)]
    /\ UNCHANGED <<backend, entry, calls, shared, locks, ghosts>>

ExitStateCall(p) ==
    /\ Invoke(p, "ExitState", Nil)
    /\ UNCHANGED <<shared, locks, ghosts>>

\* Lines 171-198
ExitStateGet(p) ==
    /\ pc[p] = "ExitState"
    /\ queries' = [queries EXCEPT ![p] = @ + 1]
    /\ pc' = [pc EXCEPT ![p] = "idle"]
    /\ arg' = [arg EXCEPT ![p] = Nil]
    /\ ret' = [ret EXCEPT ![p] = ExitStateResult(Get)]
    /\ UNCHANGED <<backend, entry, calls, shared, locks, ghosts>>

\* ---------------------------------------------------- Config and the setters
ConfigCall(p) ==
    /\ Invoke(p, "Config", Nil)
    /\ UNCHANGED <<shared, locks, ghosts>>

\* Line 204
ConfigRLock(p) ==
    /\ pc[p] = "Config"
    /\ CanRLock
    /\ RLock(p)
    /\ Goto(p, "Config_read")
    /\ UNCHANGED <<shared, logCallbackMx, ghosts>>

\* Line 207
ConfigRead(p) ==
    /\ pc[p] = "Config_read"
    /\ pc' = [pc EXCEPT ![p] = "Config_runlock"]
    /\ ret' = [ret EXCEPT ![p] = RetString("Config", Configuration)]
    /\ UNCHANGED <<arg, backend, entry, queries, calls, shared, locks, ghosts>>

\* Line 205, deferred
ConfigRUnlock(p) ==
    /\ pc[p] = "Config_runlock"
    /\ RUnlock(p)
    /\ Return(p, ret[p])
    /\ UNCHANGED <<shared, logCallbackMx, ghosts>>

SetStopConfigurationCall(p, c) ==
    /\ Invoke(p, "SetStopConfiguration", c)
    /\ UNCHANGED <<shared, locks, ghosts>>

\* Line 212
SetStopConfigurationLock(p) ==
    /\ pc[p] = "SetStopConfiguration"
    /\ CanLock
    /\ Lock(p)
    /\ Goto(p, "SetStopConfiguration_set")
    /\ UNCHANGED <<shared, logCallbackMx, ghosts>>

\* Line 213
SetStopConfigurationSet(p) ==
    /\ pc[p] = "SetStopConfiguration_set"
    /\ meta' = [meta EXCEPT !.Stop = arg[p]]
    /\ Goto(p, "SetStopConfiguration_unlock")
    /\ UNCHANGED <<st, stream, Configuration, logCallback, events, locks,
                   ghosts>>

\* Line 214
SetStopConfigurationUnlock(p) ==
    /\ pc[p] = "SetStopConfiguration_unlock"
    /\ Unlock(p)
    /\ Return(p, RetVoid("SetStopConfiguration"))
    /\ UNCHANGED <<shared, logCallbackMx, ghosts>>

SetImageCall(p, i) ==
    /\ Invoke(p, "SetImage", i)
    /\ UNCHANGED <<shared, locks, ghosts>>

SetImageLockShared(p) ==
    /\ pc[p] = "SetImage"
    /\ CanRLock
    /\ RLock(p)
    /\ Goto(p, "SetImage_set")
    /\ UNCHANGED <<shared, logCallbackMx, ghosts>>

\* Line 218
SetImageLock(p) ==
    /\ pc[p] = "SetImage"
    /\ CanLock
    /\ Lock(p)
    /\ Goto(p, "SetImage_set")
    /\ UNCHANGED <<shared, logCallbackMx, ghosts>>

\* Line 221
SetImageSet(p) ==
    /\ pc[p] = "SetImage_set"
    /\ meta' = [meta EXCEPT !.Image = arg[p]]
    /\ Goto(p, "SetImage_unlock")
    /\ UNCHANGED <<st, stream, Configuration, logCallback, events, locks,
                   ghosts>>

\* Line 219, deferred
SetImageUnlock(p) ==
    /\ pc[p] = "SetImage_unlock"
    /\ Unlock(p)
    /\ Return(p, RetVoid("SetImage"))
    /\ UNCHANGED <<shared, logCallbackMx, ghosts>>

\* ------------------------------------------------------------ SetLogCallback
SetLogCallbackCall(p, f) ==
    /\ Invoke(p, "SetLogCallback", f)
    /\ UNCHANGED <<shared, locks, ghosts>>

SetLogCallbackLockGeneral(p) ==
    /\ pc[p] = "SetLogCallback"
    /\ CanLock
    /\ Lock(p)
    /\ Goto(p, "SetLogCallback_set")
    /\ UNCHANGED <<shared, logCallbackMx, ghosts>>

\* Line 248
SetLogCallbackLock(p) ==
    /\ pc[p] = "SetLogCallback"
    /\ logCallbackMx = 0
    /\ logCallbackMx' = p
    /\ Goto(p, "SetLogCallback_set")
    /\ UNCHANGED <<shared, mu, ghosts>>

\* Line 251
SetLogCallbackSet(p) ==
    /\ pc[p] = "SetLogCallback_set"
    /\ logCallback' = arg[p]
    /\ Goto(p, "SetLogCallback_unlock")
    /\ UNCHANGED <<st, stream, meta, Configuration, events, locks, ghosts>>

\* Line 249, deferred
SetLogCallbackUnlock(p) ==
    /\ pc[p] = "SetLogCallback_unlock"
    /\ logCallbackMx' = 0
    /\ Return(p, RetVoid("SetLogCallback"))
    /\ UNCHANGED <<shared, mu, ghosts>>

\* -------------------------------------------------------------------- Next
SetStateSteps(p) ==
    \/ \E v \in States \cup InvalidStates : SetStateCall(p, v)
    \/ SetStateValidate(p)
    \/ SetStateLoad(p)
    \/ SetStateStore(p)
    \/ SetStatePublish(p)

StateSteps(p) ==
    \/ StateCall(p)
    \/ StateLoad(p)

QuerySteps(p) ==
    \/ ExistsCall(p)
    \/ ExistsGet(p)
    \/ IsRunningCall(p)
    \/ IsRunningGet(p)
    \/ ExitStateCall(p)
    \/ ExitStateGet(p)

GuardedSteps(p) ==
    \/ \E s \in Streams \cup {Nil} : SetStreamCall(p, s)
    \/ SetStreamLock(p)
    \/ SetStreamSet(p)
    \/ SetStreamUnlock(p)
    \/ IsAttachedCall(p)
    \/ IsAttachedRLock(p)
    \/ IsAttachedRead(p)
    \/ IsAttachedRUnlock(p)
    \/ ConfigCall(p)
    \/ ConfigRLock(p)
    \/ ConfigRead(p)
    \/ ConfigRUnlock(p)
    \/ \E c \in StopConfigs : SetStopConfigurationCall(p, c)
    \/ SetStopConfigurationLock(p)
    \/ SetStopConfigurationSet(p)
    \/ SetStopConfigurationUnlock(p)
    \/ \E i \in Images : SetImageCall(p, i)
    \/ SetImageLock(p)
    \/ SetImageSet(p)
    \/ SetImageUnlock(p)
    \/ \E f \in LogCallbacks : SetLogCallbackCall(p, f)
    \/ SetLogCallbackLock(p)
    \/ SetLogCallbackSet(p)
    \/ SetLogCallbackUnlock(p)

\* Any goroutine calls any method.
Next ==
    \E p \in Procs :
        \/ SetStateSteps(p)
        \/ StateSteps(p)
        \/ QuerySteps(p)
        \/ GuardedSteps(p)

Spec == Init /\ [][Next]_vars

\* One goroutine is the only caller of SetState; every goroutine calls the
\* other methods.
\* The first goroutine.
Setter == CHOOSE p \in Procs : \A q \in Procs : p <= q

NextSingle ==
    \/ SetStateSteps(Setter)
    \/ \E p \in Procs :
        \/ StateSteps(p)
        \/ QuerySteps(p)
        \/ GuardedSteps(p)

SpecSingle == Init /\ [][NextSingle]_vars

\* The three queries alone, against every answer of the lookup.
InitQuery == InitWith(GetResults)

NextQuery == \E p \in Procs : QuerySteps(p)

SpecQuery == InitQuery /\ [][NextQuery]_vars

\* The steps a goroutine takes inside a method it has called: the go scheduler
\* runs every goroutine that can run, and a goroutine waiting in Lock or RLock
\* is woken when the mutex is released.
Progress(p) ==
    \/ SetStateValidate(p)
    \/ SetStateLoad(p)
    \/ SetStateStore(p)
    \/ SetStatePublish(p)
    \/ StateLoad(p)
    \/ ExistsGet(p)
    \/ IsRunningGet(p)
    \/ ExitStateGet(p)
    \/ SetStreamLock(p) \/ SetStreamSet(p) \/ SetStreamUnlock(p)
    \/ IsAttachedRLock(p) \/ IsAttachedRead(p) \/ IsAttachedRUnlock(p)
    \/ ConfigRLock(p) \/ ConfigRead(p) \/ ConfigRUnlock(p)
    \/ SetStopConfigurationLock(p) \/ SetStopConfigurationSet(p)
    \/ SetStopConfigurationUnlock(p)
    \/ SetImageLock(p) \/ SetImageSet(p) \/ SetImageUnlock(p)
    \/ SetLogCallbackLock(p) \/ SetLogCallbackSet(p)
    \/ SetLogCallbackUnlock(p)

\* Any goroutine calls any method, under fair scheduling of the goroutines.
SpecFair == Init /\ [][Next]_vars /\ \A p \in Procs : WF_vars(Progress(p))

\* ------------------------------------------------------------------ claims
\* The state-change event carrying v, as a listener that asks State() sees it.
Event(v) == [topic |-> StateChangeEvent, payload |-> v, seen |-> v]

\* C1: for the single caller of SetState, a call with a valid value v other
\* than the current status first stores v (v is stored while the publish is
\* still to come and no event of this call is out), then publishes exactly one
\* event with payload v before it returns; State() at the publish gives v.
C1_StoreThenPublishOnce ==
    \A p \in Procs :
        (entry[p].arg \in States /\ entry[p].arg /= entry[p].st) =>
            /\ pc[p] \in {"SetState", "SetState_load", "SetState_store"} =>
                   st = entry[p].st /\ Len(events) = entry[p].events
            /\ pc[p] = "SetState_publish" =>
                   st = entry[p].arg /\ Len(events) = entry[p].events
            /\ pc[p] = "idle" =>
                   /\ ~ret[p].panicked
                   /\ st = entry[p].arg
                   /\ Len(events) = entry[p].events + 1
                   /\ events[Len(events)] = Event(entry[p].arg)

C1_Witness ==
    /\ pc[Setter] = "idle"
    /\ entry[Setter].st = ProcessStartingState
    /\ entry[Setter].arg = ProcessRunningState
    /\ events = <<Event(ProcessStartingState), Event(ProcessRunningState)>>

\* C2: with concurrent callers of SetState, every published event carries
\* the value a listener asking State() at that moment gets.
C2_ListenerObservesPayload ==
    \A i \in DOMAIN events : events[i].seen = events[i].payload

\* C3: for the single caller, SetState(v) with v the current status publishes
\* no event and leaves the status as it is, during the call and at its return.
C3_SameValueNoEvent ==
    \A p \in Procs :
        (entry[p].arg \in States /\ entry[p].arg = entry[p].st) =>
            /\ pc[p] \in {"SetState", "SetState_load", "idle"}
            /\ pc[p] = "idle" => ~ret[p].panicked
            /\ st = entry[p].st
            /\ Len(events) = entry[p].events

C3_Witness ==
    /\ pc[Setter] = "idle"
    /\ entry[Setter].arg = ProcessRunningState
    /\ entry[Setter].st = ProcessRunningState
    /\ events = <<Event(ProcessRunningState)>>

\* C4: for the single caller, when SetState(v) with one of the four values
\* has returned the status is v whatever it was before, and a State() the
\* caller makes next returns the argument of its latest SetState.
C4_StateIsLastSet ==
    /\ \A p \in Procs :
           (pc[p] = "idle" /\ entry[p].arg \in States) =>
               st = entry[p].arg /\ recent = entry[p].arg
    /\ (pc[Setter] = "idle" /\ ret[Setter].op = "State") =>
           ret[Setter].s = IF recent = Nil THEN ProcessOfflineState ELSE recent

C4_Witness ==
    /\ pc[Setter] = "idle"
    /\ ret[Setter].op = "State"
    /\ ret[Setter].s = ProcessStoppingState
    /\ recent = ProcessStoppingState

\* C5: SetState with a value that is none of the four panics, and does so
\* before anything else: the call never gets to the load, the store or the
\* publish, the status and the events stay as they were at the call.
C5_InvalidPanicsFirst ==
    \A p \in Procs :
        (entry[p].arg /= Nil /\ entry[p].arg \notin States) =>
            /\ pc[p] \in {"SetState", "idle"}
            /\ pc[p] = "idle" => ret[p] = RetPanic("SetState")
            /\ st = entry[p].st
            /\ Len(events) = entry[p].events

C5_Witness ==
    /\ pc[Setter] = "idle"
    /\ ret[Setter].panicked
    /\ entry[Setter].arg \in InvalidStates
    /\ st = ProcessRunningState
    /\ Len(events) = 1

\* C6: the status is always one of the four values, whatever the goroutines
\* do and whatever they hand to SetState; a new Environment is offline and
\* not attached, so that IsAttached() as the first call returns false.
C6_StatusInEnumeration ==
    /\ st \in States
    /\ calls = 0 => st = ProcessOfflineState /\ stream = Nil
    /\ \A p \in Procs :
           (calls = 1 /\ pc[p] = "idle" /\ ret[p].op = "IsAttached") => ~ret[p].b

C6_Witness ==
    \E p, q \in Procs :
        /\ ret[p].panicked
        /\ pc[q] = "SetState_publish"
        /\ st = ProcessRunningState

\* A goroutine is back from a call of op.
Done(p, op) == pc[p] = "idle" /\ ret[p].op = op

\* C7: Exists() returns (true, nil) when the lookup succeeds, (false, nil)
\* when it reports not-found and (false, err) for any other error err.
C7_ExistsTranslatesNotFound ==
    \A p \in Procs :
        Done(p, "Exists") =>
            /\ backend.err = Nil =>
                   ret[p].b /\ ret[p].err = Nil
            /\ backend.err = ErrNotFound =>
                   ~ret[p].b /\ ret[p].err = Nil
            /\ backend.err \notin {Nil, ErrNotFound} =>
                   ~ret[p].b /\ ret[p].err = backend.err

C7_Witness ==
    \E p \in Procs :
        /\ Done(p, "Exists")
        /\ backend.err = ErrNotFound
        /\ ret[p] = RetBool("Exists", FALSE, Nil)

\* C8: IsRunning(ctx) returns (true, nil) exactly when the lookup succeeds
\* and the phase is running, (false, nil) for every other phase, and
\* (false, err) with the error of the lookup, not-found included.
C8_IsRunningOnlyInRunningPhase ==
    \A p \in Procs :
        Done(p, "IsRunning") =>
            /\ ret[p].b <=> (backend.err = Nil /\ backend.pod.Phase = PodRunning)
            /\ ret[p].err = backend.err

C8_Witness ==
    \E p \in Procs :
        /\ Done(p, "IsRunning")
        /\ backend.err = ErrNotFound
        /\ ret[p] = RetBool("IsRunning", FALSE, ErrNotFound)

\* The terminated-state data of the workload: the Terminated of the first
\* container status, the one ExitState reads; nil when there is no status.
TerminationRecord(pod) ==
    IF Len(pod.ContainerStatuses) = 0 THEN NilTerminated
    ELSE pod.ContainerStatuses[1].Terminated

HasTerminated == backend.err = Nil /\ ~TerminationRecord(backend.pod).isNil

RawExitCode == TerminationRecord(backend.pod).ExitCode

\* The uint32 u is the number c.
IsNumber(u, c) == c >= 0 /\ u.hi = c \div Limb /\ u.lo = c % Limb

\* The uint32 u is c mod 2^32, limb by limb.
IsMod2to32(u, c) == u.lo = c % Limb /\ u.hi = (c \div Limb) % Limb

\* C9 as stated: with terminated-state data of raw exit code c, ExitState()
\* returns (137, true, nil) if c = 137 and (c, false, nil) otherwise.
C9_ReturnsRawCode ==
    \A p \in Procs :
        (Done(p, "ExitState") /\ HasTerminated) =>
            /\ ret[p].err = Nil
            /\ ret[p].b <=> RawExitCode = 137
            /\ IsNumber(ret[p].code, RawExitCode)

\* C9, amended: with terminated-state data of raw exit code c, ExitState()
\* returns (137, true, nil) if c = 137 and (c mod 2^32, false, nil) otherwise,
\* which is c itself for c >= 0; the OOM flag is true if and only if the
\* workload is found, terminated-state data is present and c = 137.
C9_ReturnsCodeModulo ==
    \A p \in Procs :
        Done(p, "ExitState") =>
            /\ HasTerminated =>
                   /\ ret[p].err = Nil
                   /\ RawExitCode = 137 => ret[p].code = [hi |-> 0, lo |-> 137]
                   /\ IsMod2to32(ret[p].code, RawExitCode)
                   /\ RawExitCode >= 0 => IsNumber(ret[p].code, RawExitCode)
            /\ ret[p].b <=> (HasTerminated /\ RawExitCode = 137)

C9_Witness ==
    \E p \in Procs :
        /\ Done(p, "ExitState")
        /\ HasTerminated
        /\ RawExitCode = 137
        /\ ret[p] = RetExit([hi |-> 0, lo |-> 137], TRUE, Nil)

\* C10: ExitState() returns (1, false, nil), and no error, when the lookup
\* reports not-found and when the workload is found without terminated-state
\* data (no container status, or one that has not terminated), in any phase.
C10_DefaultExitState ==
    \A p \in Procs :
        (/\ Done(p, "ExitState")
         /\ \/ backend.err = ErrNotFound
            \/ backend.err = Nil /\ TerminationRecord(backend.pod).isNil) =>
            ret[p] = RetExit([hi |-> 0, lo |-> 1], FALSE, Nil)

C10_Witness ==
    \E p \in Procs :
        /\ Done(p, "ExitState")
        /\ backend.err = ErrNotFound
        /\ ret[p].code = [hi |-> 0, lo |-> 1]
        /\ ~ret[p].b
        /\ ret[p].err = Nil

\* C11: when the lookup fails with an error other than not-found, Exists,
\* IsRunning and ExitState each return that error after one lookup, with the
\* zero results: (false, err), (false, err), (0, false, err).
C11_BackendErrorVerbatim ==
    \A p \in Procs :
        (/\ pc[p] = "idle"
         /\ ret[p].op \in {"Exists", "IsRunning", "ExitState"}
         /\ backend.err \notin {Nil, ErrNotFound}) =>
            /\ queries[p] = 1
            /\ ret[p].err = backend.err
            /\ ~ret[p].b
            /\ ret[p].code = [hi |-> 0, lo |-> 0]
            /\ ~ret[p].panicked

C11_Witness ==
    \E p \in Procs :
        /\ Done(p, "ExitState")
        /\ backend.err = ErrTimeout
        /\ ret[p].err = ErrTimeout
        /\ queries[p] = 1

\* C12: the stream is the argument of the latest SetStream that returned,
\* nil when there was none, whatever the stream was before; IsAttached()
\* evaluates to true exactly when that argument is not nil.
C12_AttachedIffLastStream ==
    /\ (\A p \in Procs : pc[p] /= "SetStream_unlock") => stream = lastStream
    /\ \A p \in Procs :
           pc[p] = "IsAttached_runlock" => (ret[p].b <=> lastStream /= Nil)

C12_Witness ==
    \E p \in Procs :
        /\ pc[p] = "IsAttached_runlock"
        /\ ret[p].b
        /\ lastStream \in Streams

\* A goroutine is between the Lock and the Unlock of a writer of e.mu.
InWrite(p) ==
    pc[p] \in {"SetStream_set", "SetStream_unlock",
               "SetStopConfiguration_set", "SetStopConfiguration_unlock",
               "SetImage_set", "SetImage_unlock"}

\* A goroutine is between the RLock and the RUnlock of a reader of e.mu.
InRead(p) ==
    pc[p] \in {"IsAttached_read", "IsAttached_runlock",
               "Config_read", "Config_runlock"}

\* C13: while a writer (SetImage, SetStopConfiguration, SetStream) is inside
\* its critical section no other writer and no reader (Config, IsAttached) is
\* inside one; the writer is the holder of e.mu, the readers are its readers.
C13_ReaderWriterExclusion ==
    \A p \in Procs :
        /\ InWrite(p) <=> mu.writer = p
        /\ InRead(p) <=> p \in mu.readers
        /\ InWrite(p) => \A q \in Procs \ {p} : ~InWrite(q) /\ ~InRead(q)

\* Several readers are inside their critical sections at the same time.
C13_Witness ==
    \E p, q \in Procs :
        /\ p /= q
        /\ pc[p] = "Config_read"
        /\ pc[q] = "IsAttached_read"
        /\ mu.readers = {p, q}

\* Where a goroutine is when it is in State or SetState, and in SetLogCallback.
StateCellLabels == {"State", "SetState", "SetState_load", "SetState_store",
                    "SetState_publish"}
LogCallbackLabels == {"SetLogCallback", "SetLogCallback_set",
                      "SetLogCallback_unlock"}

\* C14: State, SetState and SetLogCallback never hold e.mu, and State and
\* SetState hold no lock at all: they can be called and can take their next
\* step whoever holds e.mu or e.logCallbackMx.  SetLogCallback waits for
\* e.logCallbackMx alone, and the methods guarded by e.mu wait for e.mu alone.
C14_IndependentDomains ==
    \A p \in Procs :
        /\ pc[p] \in StateCellLabels \cup LogCallbackLabels =>
               mu.writer /= p /\ p \notin mu.readers
        /\ pc[p] \in StateCellLabels =>
               /\ logCallbackMx /= p
               /\ ENABLED (SetStateSteps(p) \/ StateSteps(p))
        /\ (pc[p] = "idle" /\ calls < MaxCalls) =>
               /\ ENABLED StateCall(p)
               /\ ENABLED SetStateCall(p, ProcessRunningState)
               /\ ENABLED SetLogCallbackCall(p, Nil)
        /\ pc[p] = "SetLogCallback" =>
               (ENABLED SetLogCallbackLock(p) <=> logCallbackMx = 0)
        /\ pc[p] \in {"SetLogCallback_set", "SetLogCallback_unlock"} =>
               ENABLED (SetLogCallbackSet(p) \/ SetLogCallbackUnlock(p))
        /\ pc[p] \in {"SetStream", "SetStopConfiguration", "SetImage"} =>
               (ENABLED (SetStreamLock(p) \/ SetStopConfigurationLock(p)
                         \/ SetImageLock(p)) <=> CanLock)
        /\ pc[p] \in {"IsAttached", "Config"} =>
               (ENABLED (IsAttachedRLock(p) \/ ConfigRLock(p)) <=> CanRLock)
        /\ (InWrite(p) \/ InRead(p)) => logCallbackMx /= p

\* SetState is past its store while another goroutine holds e.mu as a writer.
C14_Witness ==
    \E p, q \in Procs :
        /\ pc[p] = "SetState_publish"
        /\ pc[q] = "SetImage_set"
        /\ mu.writer = q

\* The steps of the methods that only read: the three queries, State,
\* IsAttached and Config.
ReadOnlySteps(p) ==
    \/ QuerySteps(p)
    \/ StateSteps(p)
    \/ IsAttachedCall(p) \/ IsAttachedRLock(p) \/ IsAttachedRead(p)
    \/ IsAttachedRUnlock(p)
    \/ ConfigCall(p) \/ ConfigRLock(p) \/ ConfigRead(p) \/ ConfigRUnlock(p)

\* C15: no step of Exists, IsRunning, ExitState, State, IsAttached or Config
\* changes the status, the stream, the metadata, the configuration reference
\* or the log callback, or publishes an event, whatever the lookup answers.
C15_QueriesChangeNothing ==
    [][\A p \in Procs : ReadOnlySteps(p) => UNCHANGED shared]_vars

C15_Witness ==
    \E p \in Procs :
        /\ Done(p, "ExitState")
        /\ backend.err = ErrForbidden
        /\ st = ProcessRunningState
        /\ Len(events) = 1

\* C16: for terminated-state data whose raw exit code c is an int32 other
\* than 137, the exit code ExitState() returns is c as a uint32: a number u
\* in 0 .. 2^32 - 1 with u = c for c >= 0 and u = c + 2^32 for c < 0 (all ones
\* for c = -1), and the OOM flag is false.
C16_ExitCodeAsUint32 ==
    \A p \in Procs :
        (Done(p, "ExitState") /\ HasTerminated /\ RawExitCode /= 137) =>
            LET u == ret[p].code
                c == RawExitCode
            IN  /\ u.hi \in 0..(Limb - 1)
                /\ u.lo \in 0..(Limb - 1)
                /\ c >= 0 => (u.hi < 32768 /\ u.hi * Limb + u.lo = c)
                /\ c < 0 => (u.hi >= 32768 /\ (u.hi - Limb) * Limb + u.lo = c)
                /\ c = -1 => u = [hi |-> 65535, lo |-> 65535]
                /\ ~ret[p].b
                /\ ret[p].err = Nil

C16_Witness ==
    \E p \in Procs :
        /\ Done(p, "ExitState")
        /\ HasTerminated
        /\ RawExitCode = -1
        /\ ret[p] = RetExit([hi |-> 65535, lo |-> 65535], FALSE, Nil)

\* No goroutine is inside SetState.
Quiescent ==
    \A p \in Procs :
        pc[p] \notin {"SetState", "SetState_load", "SetState_store",
                      "SetState_publish"}

\* The status before the i-th store.
Before(i) == IF i = 1 THEN ProcessOfflineState ELSE stores[i - 1]

\* The number of stores that changed the value of the status.
NumChanges == Cardinality({i \in DOMAIN stores : stores[i] /= Before(i)})

\* C17: with concurrent callers of SetState, once the calls have returned
\* the number of published events is the number of times the stored status
\* changed value.
C17_EventsEqualChanges ==
    Quiescent => Len(events) = NumChanges

\* The payloads of the published events, in order.
Payloads == [i \in DOMAIN events |-> events[i].payload]

\* The stores were of different values, so that a payload names its store.
DistinctStores ==
    \A i, j \in DOMAIN stores : i /= j => stores[i] /= stores[j]

\* C18: with concurrent callers of SetState passing different values, the
\* events are published in the order of their stores; so, once the calls have
\* returned, the payload of the last event is the value State() returns.
C18_EventsInStoreOrder ==
    (Quiescent /\ DistinctStores) =>
        /\ Payloads = stores
        /\ events /= <<>> => events[Len(events)].payload = st

HoldsMu(p) == mu.writer = p \/ p \in mu.readers
HoldsLogCallbackMx(p) == logCallbackMx = p

\* Where a goroutine is when it is inside a lock-guarded method.
GuardedLabels ==
    {"SetStream", "SetStream_set", "SetStream_unlock",
     "IsAttached", "IsAttached_read", "IsAttached_runlock",
     "Config", "Config_read", "Config_runlock",
     "SetStopConfiguration", "SetStopConfiguration_set",
     "SetStopConfiguration_unlock",
     "SetImage", "SetImage_set", "SetImage_unlock"} \cup LogCallbackLabels

\* No goroutine holds e.mu and e.logCallbackMx together; a goroutine that has
\* returned, is in a backend query or is in SetState or State holds neither;
\* and while a call is in progress some goroutine can take a step.
LockDiscipline ==
    /\ \A p \in Procs :
        /\ ~(HoldsMu(p) /\ HoldsLogCallbackMx(p))
        /\ pc[p] \in {"idle", "Exists", "IsRunning", "ExitState"}
                     \cup StateCellLabels =>
               ~HoldsMu(p) /\ ~HoldsLogCallbackMx(p)
    /\ mu.writer \in Procs \cup {0}
    /\ logCallbackMx \in Procs \cup {0}
    /\ (\E p \in Procs : pc[p] /= "idle") => ENABLED (\E p \in Procs : Progress(p))

\* C19: no operation holds more than one synchronization domain at once, every
\* lock-guarded operation has released its lock when it has returned, and the
\* backend queries and the event publish run with no lock held; no
\* interleaving deadlocks, and under fair scheduling every lock-guarded
\* operation a goroutine has called eventually returns.
C19_NoDeadlockAllReturn ==
    /\ []LockDiscipline
    /\ \A p \in Procs : (pc[p] \in GuardedLabels) ~> (pc[p] = "idle")

\* A goroutine has returned from SetStream and the other, which waited for
\* e.mu, now holds it.
C19_Witness ==
    \E p, q \in Procs :
        /\ p /= q
        /\ Done(p, "SetStream")
        /\ pc[q] = "SetImage_set"
        /\ mu.writer = q
        /\ calls = MaxCalls

\* The steps of each setter.
SetStreamSteps(p) ==
    \/ \E s \in Streams \cup {Nil} : SetStreamCall(p, s)
    \/ SetStreamLock(p) \/ SetStreamSet(p) \/ SetStreamUnlock(p)

SetImageSteps(p) ==
    \/ \E i \in Images : SetImageCall(p, i)
    \/ SetImageLock(p) \/ SetImageSet(p) \/ SetImageUnlock(p)

SetStopConfigurationSteps(p) ==
    \/ \E c \in StopConfigs : SetStopConfigurationCall(p, c)
    \/ SetStopConfigurationLock(p) \/ SetStopConfigurationSet(p)
    \/ SetStopConfigurationUnlock(p)

=============================================================================
